---------------------------- MODULE Spec2Model ----------------------------
(***************************************************************************)
(* A model of the cafe finder's server side:                               *)
(*   - GET /api/cafes   (src/app/api/checkins/route.ts, lines 90-258):     *)
(*     query parsing, cache-key derivation, cache lookup, the miss path    *)
(*     (upstream search, normalisation, upserts, read-back);               *)
(*   - searchNearbyPlaces (src/app/api/supabase-test/route.ts, 31-83);     *)
(*   - enforceRateLimit   (src/app/api/supabase-test/route.ts, 85-135);    *)
(*   - POST /api/checkins (src/app/api/checkins/route.ts, lines 5-87).     *)
(*                                                                         *)
(* Numbers.  A JavaScript number is a record [k, i, f]: k = "num" is the   *)
(* finite value i + f / 10^6 (i its floor, 0 <= f < 10^6), k = "nan" is    *)
(* NaN, k = "inf" an infinity (i = 1 or -1 its sign), and k = "null" is    *)
(* JavaScript's null.  Arithmetic on "num" values is exact; the inputs     *)
(* the specifications enumerate have at most six decimals.                 *)
(* A value that may be missing (a query parameter, an environment          *)
(* variable, an optional field) is a sequence: << >> when missing, <<x>>   *)
(* when present.  Times are milliseconds since the clock's origin.         *)
(***************************************************************************)
EXTENDS Integers, Sequences, FiniteSets, TLC

VARIABLES
    now,          \* the wall clock (Date.now()), in ms
    env,          \* process.env: [precision, ttl], each << >> or <<string>>
    places_cache, \* table places_cache: a set of rows
    cafes,        \* table cafes: a set of rows
    req,          \* the GET /api/cafes requests in flight: id -> local state
    rl,           \* table behind rate_limit_hit: a set of counter rows
    call,         \* the enforceRateLimit calls in flight: id -> local state
    pin,          \* input of the function under test (pure specifications)
    pout,         \* its output
    checkins      \* table checkins: a set of rows

vars == <<now, env, places_cache, cafes, req, rl, call, pin, pout, checkins>>

Scale == 10^6

None == << >>
Some(x) == <<x>>

Null   == [k |-> "null", i |-> 0, f |-> 0]
NaN    == [k |-> "nan", i |-> 0, f |-> 0]
PosInf == [k |-> "inf", i |-> 1, f |-> 0]
NegInf == [k |-> "inf", i |-> -1, f |-> 0]
Num(i, f) == [k |-> "num", i |-> i, f |-> f]
Int2Num(i) == Num(i, 0)
\* The number of sign s and magnitude ip + fp / Scale.
SignMag(s, ip, fp) ==
    IF s < 0 THEN (IF fp = 0 THEN Num(-ip, 0) ELSE Num(-ip - 1, Scale - fp))
    ELSE Num(ip, fp)

(***************************************************************************)
(* Strings.                                                                *)
(***************************************************************************)
CharAt(s, i) == SubSeq(s, i, i)

\* String.prototype.includes
Includes(s, t) ==
    \E i \in 1..(Len(s) - Len(t) + 1) : SubSeq(s, i, i + Len(t) - 1) = t

DigitChars == "0123456789"
IsDigit(c) == \E d \in 1..10 : CharAt(DigitChars, d) = c
DigitVal(c) == (CHOOSE d \in 1..10 : CharAt(DigitChars, d) = c) - 1
AllDigits(s) == \A i \in 1..Len(s) : IsDigit(CharAt(s, i))

RECURSIVE DigitsValue(_)
DigitsValue(s) ==
    IF Len(s) = 0 THEN 0
    ELSE 10 * DigitsValue(SubSeq(s, 1, Len(s) - 1)) + DigitVal(CharAt(s, Len(s)))

RECURSIVE TrimLeft(_)
TrimLeft(s) ==
    IF Len(s) > 0 /\ CharAt(s, 1) = " " THEN TrimLeft(SubSeq(s, 2, Len(s))) ELSE s

RECURSIVE TrimRight(_)
TrimRight(s) ==
    IF Len(s) > 0 /\ CharAt(s, Len(s)) = " "
    THEN TrimRight(SubSeq(s, 1, Len(s) - 1)) ELSE s

IndexOf(s, c) ==
    IF \E i \in 1..Len(s) : CharAt(s, i) = c
    THEN CHOOSE i \in 1..Len(s) :
            CharAt(s, i) = c /\ \A j \in 1..(i - 1) : CharAt(s, j) # c
    ELSE 0

RECURSIVE PadRight(_, _)
PadRight(s, n) == IF Len(s) >= n THEN SubSeq(s, 1, n) ELSE PadRight(s \o "0", n)

\* An unsigned decimal literal: digits, digits.digits, .digits or digits.
\* UnsignedDecimalParts: its integer part and its decimals in units of
\* 10^-6 (decimals beyond the sixth are dropped).
IsUnsignedDecimal(t) ==
    LET dot == IndexOf(t, ".")
        ip  == IF dot = 0 THEN t ELSE SubSeq(t, 1, dot - 1)
        fp  == IF dot = 0 THEN "" ELSE SubSeq(t, dot + 1, Len(t))
    IN  AllDigits(ip) /\ AllDigits(fp) /\ Len(ip) + Len(fp) > 0

UnsignedDecimalParts(t) ==
    LET dot == IndexOf(t, ".")
        ip  == IF dot = 0 THEN t ELSE SubSeq(t, 1, dot - 1)
        fp  == IF dot = 0 THEN "" ELSE SubSeq(t, dot + 1, Len(t))
    IN  <<DigitsValue(ip), DigitsValue(PadRight(fp, 6))>>

\* Number(s) for a string s: white space is trimmed, the empty string is 0,
\* a signed decimal literal or Infinity is its value, anything else is NaN.
\* (Exponents and 0x/0o/0b literals are outside the inputs modelled.)
StringToNumber(s) ==
    LET t    == TrimRight(TrimLeft(s))
        sign == IF Len(t) > 0 /\ CharAt(t, 1) = "-" THEN -1 ELSE 1
        body == IF Len(t) > 0 /\ CharAt(t, 1) \in {"-", "+"}
                THEN SubSeq(t, 2, Len(t)) ELSE t
    IN  IF Len(t) = 0 THEN Int2Num(0)
        ELSE IF body = "Infinity" THEN (IF sign < 0 THEN NegInf ELSE PosInf)
        ELSE IF IsUnsignedDecimal(body)
             THEN LET d == UnsignedDecimalParts(body) IN SignMag(sign, d[1], d[2])
        ELSE NaN

RECURSIVE NatToString(_)
NatToString(n) ==
    IF n < 10 THEN CharAt(DigitChars, n + 1)
    ELSE NatToString(n \div 10) \o CharAt(DigitChars, (n % 10) + 1)

RECURSIVE StripZeros(_)
StripZeros(s) ==
    IF Len(s) > 0 /\ CharAt(s, Len(s)) = "0"
    THEN StripZeros(SubSeq(s, 1, Len(s) - 1)) ELSE s

RECURSIVE PadLeft(_, _)
PadLeft(s, n) == IF Len(s) >= n THEN s ELSE PadLeft("0" \o s, n)

\* Number::toString, as a template literal applies it: the shortest decimal
\* form, no trailing zeros, "0" for both zeros.
NumberToString(x) ==
    IF x.k = "nan" THEN "NaN"
    ELSE IF x.k = "inf" THEN (IF x.i < 0 THEN "-Infinity" ELSE "Infinity")
    ELSE IF x.k = "null" THEN "null"
    ELSE LET neg == x.i < 0
             ip  == IF neg THEN (IF x.f = 0 THEN -x.i ELSE -x.i - 1) ELSE x.i
             fp  == IF neg /\ x.f > 0 THEN Scale - x.f ELSE x.f
             ds  == StripZeros(PadLeft(NatToString(fp), 6))
         IN  (IF neg THEN "-" ELSE "")
                \o NatToString(ip)
                \o (IF ds = "" THEN "" ELSE "." \o ds)


(***************************************************************************)
(* Math.min, Math.max, Math.round, Number.isFinite.                        *)
(***************************************************************************)
NumLess(a, b) ==
    IF a.k = "inf" THEN a.i < 0 /\ ~(b.k = "inf" /\ b.i < 0)
    ELSE IF b.k = "inf" THEN b.i > 0
    ELSE a.i < b.i \/ (a.i = b.i /\ a.f < b.f)

MathMin(a, b) ==
    IF a.k = "nan" \/ b.k = "nan" THEN NaN ELSE IF NumLess(b, a) THEN b ELSE a

MathMax(a, b) ==
    IF a.k = "nan" \/ b.k = "nan" THEN NaN ELSE IF NumLess(a, b) THEN b ELSE a

IsFinite(n) == n.k = "num"

\* The nearest integer to n * f with a tie going away from zero.
MathRoundTimesHalfAway(n, f) ==
    LET g == Scale \div f
        r == n.i * f + (2 * n.f + g) \div (2 * g)
    IN  IF n.i < 0 /\ (2 * n.f + g) % (2 * g) = 0 THEN r - 1 ELSE r

\* Math.round(n * f) for a finite n and f = 10^p, p in 0..6: the nearest
\* integer, a tie going to the larger one (floor(n * f + 0.5)).
MathRoundTimes(n, f) ==
    LET g == Scale \div f IN n.i * f + (2 * n.f + g) \div (2 * g)

(***************************************************************************)
(* The helpers of GET /api/cafes.                                          *)
(***************************************************************************)
DefaultRadius    == 1500
MinRadius        == 200
MaxRadius        == 5000
DefaultPrecision == 3
MinPrecision     == 2
MaxPrecision     == 5
DefaultTtl       == 900
MinTtl           == 60
MaxTtl           == 86400

\* toNumber(value: string | null): number | null
toNumber(value) ==
    IF value = None THEN Null
    ELSE LET n == StringToNumber(value[1])
         IN  IF IsFinite(n) THEN n ELSE Null

clamp(n, min, max) == MathMax(min, MathMin(max, n))

\* roundCoord(n, precision), for a finite n and a precision that is NaN or
\* integral (Math.pow(10, precision) is then an integer f).
roundCoord(n, precision) ==
    IF precision.k = "nan" THEN NaN
    ELSE LET f == 10^precision.i
             r == MathRoundTimes(n, f)
         IN  Num(r \div f, (r % f) * (Scale \div f))

\* The key made of the coordinates as given, not rounded.
cacheKeyUnrounded(lat, lng, radiusM, precision) ==
    "nearby:" \o NumberToString(lat) \o ":" \o NumberToString(lng)
        \o ":r=" \o NumberToString(radiusM)

\* cacheKey, lines 109-113
cacheKey(lat, lng, radiusM, precision) ==
    LET rLat == roundCoord(lat, precision)
        rLng == roundCoord(lng, precision)
    IN  "nearby:" \o NumberToString(rLat) \o ":" \o NumberToString(rLng)
            \o ":r=" \o NumberToString(radiusM)

\* Number(process.env.X ?? dflt)
EnvNumber(e, dflt) == IF e = None THEN Int2Num(dflt) ELSE StringToNumber(e[1])

\* GET, lines 130-142
QueryRadiusM(radius) ==
    clamp(IF radius = Null THEN Int2Num(DefaultRadius) ELSE radius,
          Int2Num(MinRadius), Int2Num(MaxRadius))

EnvPrecision(e) ==
    clamp(EnvNumber(e.precision, DefaultPrecision),
          Int2Num(MinPrecision), Int2Num(MaxPrecision))

EnvTtlSeconds(e) ==
    clamp(EnvNumber(e.ttl, DefaultTtl), Int2Num(MinTtl), Int2Num(MaxTtl))

\* GET, lines 117-144: the query q = [lat, lng, radius] (raw parameters) under
\* the environment e: rejected (ok = FALSE), or the numbers and the key the
\* rest of the handler works with.
ParseQuery(q, e) ==
    LET lat    == toNumber(q.lat)
        lng    == toNumber(q.lng)
        radius == toNumber(q.radius)
    IN  IF lat = Null \/ lng = Null
        THEN [ok |-> FALSE, lat |-> lat, lng |-> lng, radiusM |-> Null,
              precision |-> Null, ttlSeconds |-> Null, key |-> ""]
        ELSE LET radiusM   == QueryRadiusM(radius)
                 precision == EnvPrecision(e)
             IN  [ok |-> TRUE, lat |-> lat, lng |-> lng, radiusM |-> radiusM,
                  precision |-> precision, ttlSeconds |-> EnvTtlSeconds(e),
                  key |-> cacheKey(lat, lng, radiusM, precision)]

(***************************************************************************)
(* searchNearbyPlaces and the normalisation of its records (GET, 178-206). *)
(* A GooglePlace is [id, displayName, location, rating, priceLevel], each  *)
(* field << >> when the provider left it out.  The fields address,         *)
(* userRatingCount and types are copied like rating and are not carried,   *)
(* nor are the rows' timestamps last_fetched_at and updated_at.            *)
(***************************************************************************)
\* GET, lines 184-190: the chain of includes() tests, in the code's order.
PriceLevelInt(priceLevel) ==
    IF priceLevel = None THEN None
    ELSE IF Includes(priceLevel[1], "FREE") THEN Some(0)
    ELSE IF Includes(priceLevel[1], "INEXPENSIVE") THEN Some(1)
    ELSE IF Includes(priceLevel[1], "MODERATE") THEN Some(2)
    ELSE IF Includes(priceLevel[1], "EXPENSIVE") THEN Some(3)
    ELSE IF Includes(priceLevel[1], "VERY_EXPENSIVE") THEN Some(4)
    ELSE None

\* NormalizePlace without the test of the location: a record without one is
\* kept, its coordinates null.
NormalizePlaceKeepNoLocation(p) ==
    IF p.id = None \/ p.id = Some("") THEN None
    ELSE Some([place_id        |-> p.id[1],
               name            |-> IF p.displayName = None \/ p.displayName[1] = None
                                   THEN "Unknown" ELSE p.displayName[1][1],
               lat             |-> IF p.location = None THEN Null ELSE p.location[1][1],
               lng             |-> IF p.location = None THEN Null ELSE p.location[1][2],
               google_rating   |-> p.rating,
               price_level     |-> PriceLevelInt(p.priceLevel)])

\* GET, lines 179-205: one record of the provider: << >> when it is dropped
\* (null), else the row to upsert.
NormalizePlace(p) ==
    IF p.id = None \/ p.id = Some("") \/ p.location = None THEN None
    ELSE Some([place_id        |-> p.id[1],
               name            |-> IF p.displayName = None \/ p.displayName[1] = None
                                   THEN "Unknown" ELSE p.displayName[1][1],
               lat             |-> p.location[1][1],
               lng             |-> p.location[1][2],
               google_rating   |-> p.rating,
               price_level     |-> PriceLevelInt(p.priceLevel)])

\* GET, lines 178-206: places.map(...).filter(Boolean)
RECURSIVE CafesToUpsert(_)
CafesToUpsert(places) ==
    IF places = << >> THEN << >>
    ELSE NormalizePlace(Head(places)) \o CafesToUpsert(Tail(places))

\* The places of any reply that has some, a failed reply giving none.
SearchNearbyPlacesIgnoreStatus(reply) ==
    [err |-> None,
     places |-> IF reply.places = None THEN << >> ELSE reply.places[1]]

\* searchNearbyPlaces, lines 75-82, on the provider's reply: the places, or
\* the error thrown ("network" is fetch rejecting).
SearchNearbyPlaces(reply) ==
    IF reply.kind = "network" THEN [err |-> Some("fetch failed"), places |-> << >>]
    ELSE IF ~reply.ok
    THEN [err |-> Some("Google Places error " \o NatToString(reply.status)
                         \o ": " \o reply.text),
          places |-> << >>]
    ELSE [err |-> None,
          places |-> IF reply.places = None THEN << >> ELSE reply.places[1]]

(***************************************************************************)
(* The store, as the handlers use it.  A reply is [err, data]: err is      *)
(* << >> or <<message>>, data the rows returned.  Timestamps are kept in   *)
(* ms (the ISO strings the code writes and reads back name the same ms).   *)
(***************************************************************************)
StoreError == [err |-> Some("store error"), data |-> << >>]
StoreOk(data) == [err |-> None, data |-> data]

\* .maybeSingle(): no row is null, one row is the row, more is an error.
MaybeSingle(rows) ==
    IF rows = {} THEN StoreOk(None)
    ELSE IF Cardinality(rows) = 1 THEN StoreOk(Some(CHOOSE x \in rows : TRUE))
    ELSE StoreError

\* from("places_cache").select(...).eq("cache_key", key)
SelectCache(table, key) == {row \in table : row.cache_key = key}

\* from("cafes").select(...).in("place_id", ids)
SelectCafesIn(table, ids) ==
    {row \in table : \E i \in 1..Len(ids) : ids[i] = row.place_id}

\* One statement may not upsert two rows with the same conflict key.
HasDuplicateIds(rows) ==
    \E i, j \in 1..Len(rows) : i < j /\ rows[i].place_id = rows[j].place_id

\* The rows added to the table, whatever it holds.
UpsertCafesInsertOnly(table, rows) == table \cup {rows[i] : i \in 1..Len(rows)}

\* from("cafes").upsert(rows, { onConflict: "place_id" })
UpsertCafes(table, rows) ==
    {old \in table : \A i \in 1..Len(rows) : rows[i].place_id # old.place_id}
        \cup {rows[i] : i \in 1..Len(rows)}

\* The row written with the place ids of the row it replaces before its own.
UpsertCacheMerging(table, row) ==
    LET old == {o \in table : o.cache_key = row.cache_key}
    IN  {o \in table : o.cache_key # row.cache_key}
            \cup {[row EXCEPT !.place_ids =
                      IF old = {} THEN row.place_ids
                      ELSE (CHOOSE o \in old : TRUE).place_ids \o row.place_ids]}

\* from("places_cache").upsert(row, { onConflict: "cache_key" })
UpsertCache(table, row) ==
    {old \in table : old.cache_key # row.cache_key} \cup {row}

\* JSON.stringify of a number: NaN and the infinities become null.
JsonNumber(x) == IF x.k = "num" THEN x ELSE Null

(***************************************************************************)
(* GET /api/cafes.  A request is a record:                                 *)
(*   pc     where it stands: the collaborator call it awaits, a collaborator*)
(*          reply it has not yet resumed on ("..._ret"), or "done";         *)
(*   q      its raw query parameters;                                      *)
(*   p      what lines 117-144 made of them (ParseQuery);                  *)
(*   reply  the reply it resumes on;                                       *)
(*   found, nowAt  the cache row it read and the time it compared it with; *)
(*   places the records searchNearbyPlaces returned to it (line 175);      *)
(*   rows   cafesToUpsert;   entry  the cache row it sends;                *)
(*   wrote, replaced  whether its cache row reached the table, and the     *)
(*          expires_at of the row it took the place of;                    *)
(*   res    its response;    ops  the collaborator calls made for it;      *)
(*   up     how the provider answered it ("ok", "http_error", "network");  *)
(*   storeFail  the store operation that failed for it, if one did.        *)
(***************************************************************************)
NoReply == StoreOk(None)
NoResponse == [status |-> 0, source |-> "", error |-> "", cafes |-> {}]

NewRequest(q) ==
    [pc |-> "lookup", q |-> q, p |-> ParseQuery(q, env), reply |-> NoReply,
     found |-> None, nowAt |-> -1, places |-> << >>,
     rows |-> << >>, entry |-> None, wrote |-> FALSE, replaced |-> None,
     res |-> NoResponse, ops |-> << >>, up |-> "", storeFail |-> ""]

\* NextResponse.json(...) ends the request.
Respond(r, status, source, error, rows) ==
    [r EXCEPT !.pc = "done", !.reply = NoReply, !.rows = << >>,
              !.res = [status |-> status, source |-> source, error |-> error,
                       cafes |-> rows]]

\* An error answered as a success without places.
FailAsEmptySuccess(r, message) == Respond(r, 200, "google", "", {})

\* The catch block, lines 252-257.
Fail(r, message) == Respond(r, 500, "", message, {})

\* The locals of lines 119-144 (lat, lng, radiusM, precision, ttlSeconds, key).
Parsed(r) == r.p

\* IsHit with the comparison of the expiry turned around.
IsHitExpiryInverted(cacheRow, t) ==
    /\ cacheRow # None
    /\ cacheRow[1].expires_at < t
    /\ Len(cacheRow[1].place_ids) > 0

\* IsHit without the test of place_ids.
IsHitAnyLength(cacheRow, t) ==
    /\ cacheRow # None
    /\ cacheRow[1].expires_at > t

\* line 157: cacheRow && new Date(cacheRow.expires_at) > now
\*           && cacheRow.place_ids?.length
IsHit(cacheRow, t) ==
    /\ cacheRow # None
    /\ cacheRow[1].expires_at > t
    /\ Len(cacheRow[1].place_ids) > 0

\* ttlSeconds * 1000, as a Date takes it (whole ms).
TtlMs(ttlSeconds) == ttlSeconds.i * 1000 + (ttlSeconds.f * 1000) \div Scale

PlaceIds(rows) == [i \in 1..Len(rows) |-> rows[i].place_id]

(***************************************************************************)
(* enforceRateLimit (src/app/api/supabase-test/route.ts, lines 85-135).    *)
(* The request's headers are [xff, realIp], each << >> or <<string>>.      *)
(* The data of the rpc's reply is [kind, rows]: kind "null", "row" (rows   *)
(* holds the row) or "array" (rows holds its elements); a row is           *)
(* [allowed, used, limit, reset_at], each << >> when the field is missing. *)
(***************************************************************************)
\* xff.split(",")[0]
FirstOfList(s) ==
    LET c == IndexOf(s, ",") IN IF c = 0 THEN s ELSE SubSeq(s, 1, c - 1)

\* getClientIp, lines 89-99
getClientIp(headers) ==
    IF headers.xff # None /\ headers.xff[1] # ""
    THEN TrimRight(TrimLeft(FirstOfList(headers.xff[1])))
    ELSE IF headers.realIp # None /\ headers.realIp[1] # ""
    THEN TrimRight(TrimLeft(headers.realIp[1]))
    ELSE "0.0.0.0"

\* sha256Base64Url, lines 101-103: the digest, taken as injective.
sha256Base64Url(input) == "sha256:" \o input

\* The result with any row taken as an allowance.
RateLimitResultAnyRowAllowed(data, opts, t) ==
    LET row == IF data.kind = "null" \/ data.rows = << >> THEN None
               ELSE Some(data.rows[1])
    IN  [allowed |-> row # None,
         used    |-> IF row = None \/ row[1].used = None THEN 0 ELSE row[1].used[1],
         limit   |-> IF row = None \/ row[1].limit = None
                     THEN opts.limit ELSE row[1].limit[1],
         resetAt |-> IF row = None \/ row[1].reset_at = None
                     THEN t + opts.windowSeconds * 1000 ELSE row[1].reset_at[1]]

\* The result with an array reply taken for the row itself: an array has
\* none of the row's fields.
RateLimitResultArrayAsRow(data, opts, t) ==
    LET row == IF data.kind # "row" THEN None ELSE Some(data.rows[1])
    IN  [allowed |-> row # None /\ row[1].allowed # None /\ row[1].allowed[1],
         used    |-> IF row = None \/ row[1].used = None THEN 0 ELSE row[1].used[1],
         limit   |-> IF row = None \/ row[1].limit = None
                     THEN opts.limit ELSE row[1].limit[1],
         resetAt |-> IF row = None \/ row[1].reset_at = None
                     THEN t + opts.windowSeconds * 1000 ELSE row[1].reset_at[1]]

\* The result with a missing allowed field taken as an allowance.
RateLimitResultFailOpen(data, opts, t) ==
    LET row == IF data.kind = "null" \/ data.rows = << >> THEN None
               ELSE Some(data.rows[1])
    IN  [allowed |-> row = None \/ row[1].allowed = None \/ row[1].allowed[1],
         used    |-> IF row = None \/ row[1].used = None THEN 0 ELSE row[1].used[1],
         limit   |-> IF row = None \/ row[1].limit = None
                     THEN opts.limit ELSE row[1].limit[1],
         resetAt |-> IF row = None \/ row[1].reset_at = None
                     THEN t + opts.windowSeconds * 1000 ELSE row[1].reset_at[1]]

\* enforceRateLimit, lines 125-134: the result made of the reply's data, at
\* time t.
RateLimitResult(data, opts, t) ==
    LET row == IF data.kind = "null" \/ data.rows = << >> THEN None
               ELSE Some(data.rows[1])
    IN  [allowed |-> row # None /\ row[1].allowed # None /\ row[1].allowed[1],
         used    |-> IF row = None \/ row[1].used = None THEN 0 ELSE row[1].used[1],
         limit   |-> IF row = None \/ row[1].limit = None
                     THEN opts.limit ELSE row[1].limit[1],
         resetAt |-> IF row = None \/ row[1].reset_at = None
                     THEN t + opts.windowSeconds * 1000 ELSE row[1].reset_at[1]]

\* The store's rate_limit_hit(p_route, p_ip_hash, p_window_seconds, p_limit)
\* at time t: the counter of (route, fingerprint) is started anew when there
\* is none or its window has passed, and incremented otherwise, in one
\* operation.  RateLimitHitTable is the table after it, RateLimitHitRow the
\* row it returns.
RateLimitCounter(table, route, ipHash) ==
    {c \in table : c.route = route /\ c.ip_hash = ipHash}

RateLimitHitCounter(table, route, ipHash, windowSeconds, t) ==
    LET cur == RateLimitCounter(table, route, ipHash)
        old == CHOOSE c \in cur : TRUE
    IN  IF cur = {} \/ t >= old.reset_at
        THEN [route |-> route, ip_hash |-> ipHash, count |-> 1,
              reset_at |-> t + windowSeconds * 1000]
        ELSE [old EXCEPT !.count = old.count + 1]

RateLimitHitTable(table, route, ipHash, windowSeconds, t) ==
    (table \ RateLimitCounter(table, route, ipHash))
        \cup {RateLimitHitCounter(table, route, ipHash, windowSeconds, t)}

RateLimitHitRow(table, route, ipHash, windowSeconds, limit, t) ==
    LET c == RateLimitHitCounter(table, route, ipHash, windowSeconds, t)
    IN  [allowed |-> Some(c.count <= limit), used |-> Some(c.count),
         limit |-> Some(limit), reset_at |-> Some(c.reset_at)]

(***************************************************************************)
(* Initial values of the variables a specification does not use.           *)
(***************************************************************************)
NoEnv == [precision |-> None, ttl |-> None]

IdleCafes == now = 0 /\ env = NoEnv /\ places_cache = {} /\ cafes = {} /\ req = << >>
IdleLimiter == rl = {} /\ call = << >> /\ checkins = {}
IdlePure == pin = None /\ pout = None

(***************************************************************************)
(* SpecKey: the key derivation of GET (lines 117-144) applied to two       *)
(* queries under one environment.                                          *)
(***************************************************************************)
LatInputs == {"37.7749", "37.7751", "37.78", "0.125", "-0.125", "-0.0625"}
LngInputs == {"-122.4194", "-122.4196"}
RadiusInputs == {None, Some("100"), Some("9000"), Some("abc")}
PrecisionInputs == {None, Some("2"), Some("3"), Some("9"), Some("abc")}

KeyQueries ==
    [lat : {Some(x) : x \in LatInputs}, lng : {Some(x) : x \in LngInputs},
     radius : RadiusInputs]

KeyInit ==
    /\ IdleCafes /\ IdleLimiter
    /\ pin \in {Some(x) : x \in [a : KeyQueries, b : KeyQueries,
                                  env : [precision : PrecisionInputs, ttl : {None}]]}
    /\ pout = None

Rounded(r) ==
    [lat |-> roundCoord(r.lat, r.precision), lng |-> roundCoord(r.lng, r.precision)]

DeriveKeys ==
    /\ pin # None /\ pout = None
    /\ pout' = Some([a |-> ParseQuery(pin[1].a, pin[1].env),
                      b |-> ParseQuery(pin[1].b, pin[1].env)])
    /\ UNCHANGED <<now, env, places_cache, cafes, req, rl, call, pin, checkins>>

KeyNext == DeriveKeys

SpecKey == KeyInit /\ [][KeyNext]_vars

(***************************************************************************)
(* Spec: up to NReq requests to GET /api/cafes, run concurrently against   *)
(* one store and one provider, with a clock that may advance between any   *)
(* two steps.  A step is the code between two awaits, or a collaborator    *)
(* serving one call.                                                       *)
(***************************************************************************)
NReq      == 2
MaxTime   == 60001
MaxJitter == 1
BigTick   == 60000

Queries ==
    {[lat |-> Some("37.7749"), lng |-> Some("-122.4194"), radius |-> None],
     [lat |-> Some(""), lng |-> Some("-122.4194"), radius |-> Some("100")],
     [lat |-> Some("37.7749"), lng |-> None, radius |-> None]}

Envs ==
    {[precision |-> None, ttl |-> Some("60")],
     [precision |-> Some("abc"), ttl |-> Some("abc")]}

Loc == Some(<<Num(37, 775000), SignMag(-1, 122, 419000)>>)
PlaceA ==
    [id |-> Some("A"), displayName |-> Some(Some("Alpha")), location |-> Loc,
     rating |-> Some(4), priceLevel |-> Some("PRICE_LEVEL_MODERATE")]
PlaceA2 ==
    [id |-> Some("A"), displayName |-> Some(None), location |-> Loc,
     rating |-> Some(5), priceLevel |-> Some("PRICE_LEVEL_VERY_EXPENSIVE")]
PlaceB ==
    [id |-> Some("B"), displayName |-> None, location |-> Loc,
     rating |-> None, priceLevel |-> None]
PlaceNoId ==
    [id |-> None, displayName |-> Some(Some("Nameless")), location |-> Loc,
     rating |-> Some(3), priceLevel |-> Some("PRICE_LEVEL_FREE")]
PlaceNoLoc ==
    [id |-> Some("C"), displayName |-> Some(Some("Nowhere")), location |-> None,
     rating |-> Some(3), priceLevel |-> Some("PRICE_LEVEL_FREE")]

OkReply(places) ==
    [kind |-> "http", ok |-> TRUE, status |-> 200, text |-> "", places |-> places]

UpstreamReplies ==
    {OkReply(None),
     OkReply(Some(<<PlaceA, PlaceB>>)),
     OkReply(Some(<<PlaceA2, PlaceNoId, PlaceNoLoc>>)),
     OkReply(Some(<<PlaceA, PlaceA2>>)),
     [kind |-> "network", ok |-> FALSE, status |-> 0, text |-> "", places |-> None],
     [kind |-> "http", ok |-> FALSE, status |-> 503, text |-> "unavailable",
      places |-> None]}

Init ==
    /\ now = 0
    /\ env \in Envs
    /\ places_cache = {} /\ cafes = {} /\ req = << >>
    /\ IdleLimiter /\ IdlePure

Op(r, name) == [r EXCEPT !.ops = Append(@, name)]
\* The store fails on the call name of request r.
FailedOp(r, name) == [Op(r, name) EXCEPT !.storeFail = name]

\* The clock advances between two steps (by BigTick), or by a ms inside a
\* step, between two of its readings of the clock.
CanJitter == now % 1000 < MaxJitter
Tick ==
    /\ now + BigTick <= MaxTime
    /\ now' = now + BigTick
    /\ UNCHANGED <<env, places_cache, cafes, req, rl, call, pin, pout, checkins>>

\* GET, lines 117-152: the query is parsed; a missing or invalid lat or lng is
\* answered 400; else the key is derived and the cache lookup sent.
Arrive(q) ==
    /\ Len(req) < NReq
    /\ req' = Append(req,
                     IF NewRequest(q).p.ok THEN NewRequest(q)
                     ELSE Respond(NewRequest(q), 400, "",
                                  "Missing/invalid lat or lng", {}))
    /\ UNCHANGED <<now, env, places_cache, cafes, rl, call, pin, pout, checkins>>

\* The store serves the lookup of lines 148-152.
StoreCacheSelect(r, fail) ==
    /\ req[r].pc = "lookup"
    /\ req' = [req EXCEPT ![r] =
                  [(IF fail THEN FailedOp(req[r], "places_cache.select")
                    ELSE Op(req[r], "places_cache.select")) EXCEPT
                      !.pc = "lookup_ret",
                      !.reply = IF fail THEN StoreError
                                ELSE MaybeSingle(SelectCache(places_cache,
                                                             Parsed(req[r]).key))]]
    /\ UNCHANGED <<now, env, places_cache, cafes, rl, call, pin, pout, checkins>>

\* GET, lines 154-162 and 175: the lookup's reply is read against the clock;
\* a hit sends the read of the place rows, a miss calls the provider.
AfterLookup(r) ==
    /\ req[r].pc = "lookup_ret"
    /\ req' = [req EXCEPT ![r] =
                  IF req[r].reply.err # None THEN Fail(req[r], req[r].reply.err[1])
                  ELSE [req[r] EXCEPT
                          !.found = req[r].reply.data, !.nowAt = now,
                          !.reply = NoReply,
                          !.pc = IF IsHit(req[r].reply.data, now)
                                 THEN "hit_select" ELSE "upstream"]]
    /\ UNCHANGED <<now, env, places_cache, cafes, rl, call, pin, pout, checkins>>

\* StoreCafesSelectHit with a sliding expiry: a hit rewrites the expires_at
\* of the row it found to the time of the hit plus the TTL.
StoreCafesSelectHitSliding(r, fail) ==
    /\ req[r].pc = "hit_select"
    /\ req' = [req EXCEPT ![r] =
                  IF fail THEN Fail(FailedOp(req[r], "cafes.select"), StoreError.err[1])
                  ELSE Respond(Op(req[r], "cafes.select"), 200, "cache", "",
                               SelectCafesIn(cafes, req[r].found[1].place_ids))]
    /\ places_cache' =
          {IF e.cache_key = req[r].found[1].cache_key
           THEN [e EXCEPT !.expires_at = now + TtlMs(Parsed(req[r]).ttlSeconds)]
           ELSE e : e \in places_cache}
    /\ UNCHANGED <<now, env, cafes, rl, call, pin, pout, checkins>>

\* The store serves the read of lines 159-162, and lines 164-171 answer.
StoreCafesSelectHit(r, fail) ==
    /\ req[r].pc = "hit_select"
    /\ req' = [req EXCEPT ![r] =
                  IF fail THEN Fail(FailedOp(req[r], "cafes.select"), StoreError.err[1])
                  ELSE Respond(Op(req[r], "cafes.select"), 200, "cache", "",
                               SelectCafesIn(cafes, req[r].found[1].place_ids))]
    /\ UNCHANGED <<now, env, places_cache, cafes, rl, call, pin, pout, checkins>>

\* GET, lines 216-234, for the rows kept: the cache row is built and its
\* upsert sent.  expiresAt is read off the clock first, fetched_at after it
\* (d ms later).  An expiry that is no date makes toISOString throw.
SendCacheUpsert(r, rows, d) ==
    LET p == Parsed(r)
    IN  IF p.ttlSeconds.k # "num" THEN Fail(r, "Invalid time value")
        ELSE [r EXCEPT
                !.pc = "cache_upsert", !.reply = NoReply, !.rows = rows,
                !.entry = Some([cache_key  |-> p.key,
                                lat_center |-> JsonNumber(roundCoord(p.lat, p.precision)),
                                lng_center |-> JsonNumber(roundCoord(p.lng, p.precision)),
                                radius_m   |-> p.radiusM,
                                place_ids  |-> PlaceIds(rows),
                                fetched_at |-> now + d,
                                expires_at |-> now + TtlMs(p.ttlSeconds)])]

\* The provider answers the call of line 175 and lines 175-214 run: a failure
\* is thrown; else the records are normalised and the rows upserted, or, with
\* no row kept, lines 216-234 run at once.
UpstreamReturns(r, reply, d) ==
    /\ req[r].pc = "upstream"
    /\ d = 1 => CanJitter /\ now + d <= MaxTime
    /\ LET sr   == SearchNearbyPlaces(reply)
           rows == CafesToUpsert(sr.places)
           rq   == [Op(req[r], "searchNearbyPlaces") EXCEPT
                       !.places = sr.places,
                       !.up = IF reply.kind = "network" THEN "network"
                              ELSE IF ~reply.ok THEN "http_error" ELSE "ok"]
       IN  /\ req' = [req EXCEPT ![r] =
                        IF sr.err # None THEN Fail(rq, sr.err[1])
                        ELSE IF Len(rows) > 0
                        THEN [rq EXCEPT !.pc = "cafes_upsert", !.rows = rows]
                        ELSE SendCacheUpsert(rq, rows, d)]
           /\ now' = IF sr.err = None /\ Len(rows) = 0
                        /\ Parsed(req[r]).ttlSeconds.k = "num"
                     THEN now + d ELSE now
    /\ d = 1 => now' # now
    /\ UNCHANGED <<env, places_cache, cafes, rl, call, pin, pout, checkins>>

\* The store serves the upsert of lines 209-211.
StoreCafesUpsert(r, fail) ==
    /\ req[r].pc = "cafes_upsert"
    /\ LET bad == fail \/ HasDuplicateIds(req[r].rows)
       IN  /\ req' = [req EXCEPT ![r] =
                        [(IF bad THEN FailedOp(req[r], "cafes.upsert")
                          ELSE Op(req[r], "cafes.upsert")) EXCEPT
                            !.pc = "cafes_upsert_ret",
                            !.reply = IF bad THEN StoreError ELSE StoreOk(None)]]
           /\ cafes' = IF bad THEN cafes ELSE UpsertCafes(cafes, req[r].rows)
    /\ UNCHANGED <<now, env, places_cache, rl, call, pin, pout, checkins>>

\* AfterCafesUpsert without line 213: the error of the upsert is not thrown
\* and the cache row is sent all the same.
AfterCafesUpsertIgnoreError(r, d) ==
    /\ req[r].pc = "cafes_upsert_ret"
    /\ d = 1 => CanJitter /\ now + d <= MaxTime
    /\ req' = [req EXCEPT ![r] = SendCacheUpsert(req[r], req[r].rows, d)]
    /\ now' = IF Parsed(req[r]).ttlSeconds.k = "num" THEN now + d ELSE now
    /\ d = 1 => now' # now
    /\ UNCHANGED <<env, places_cache, cafes, rl, call, pin, pout, checkins>>

\* GET, lines 213-234.
AfterCafesUpsert(r, d) ==
    /\ req[r].pc = "cafes_upsert_ret"
    /\ d = 1 => CanJitter /\ now + d <= MaxTime
    /\ req' = [req EXCEPT ![r] =
                  IF req[r].reply.err # None THEN Fail(req[r], req[r].reply.err[1])
                  ELSE SendCacheUpsert(req[r], req[r].rows, d)]
    /\ now' = IF req[r].reply.err = None /\ Parsed(req[r]).ttlSeconds.k = "num"
              THEN now + d ELSE now
    /\ d = 1 => now' # now
    /\ UNCHANGED <<env, places_cache, cafes, rl, call, pin, pout, checkins>>

\* The store serves the upsert of lines 220-234, and lines 236-242 send the
\* read-back.
StoreCacheUpsert(r, fail) ==
    /\ req[r].pc = "cache_upsert"
    /\ LET old == SelectCache(places_cache, req[r].entry[1].cache_key)
       IN  req' = [req EXCEPT ![r] =
                     IF fail
                     THEN Fail(FailedOp(req[r], "places_cache.upsert"), StoreError.err[1])
                     ELSE [Op(req[r], "places_cache.upsert") EXCEPT
                              !.pc = "miss_select", !.wrote = TRUE,
                              !.replaced = IF old = {} THEN None
                                           ELSE Some((CHOOSE x \in old : TRUE).expires_at)]]
    /\ places_cache' = IF fail THEN places_cache
                       ELSE UpsertCache(places_cache, req[r].entry[1])
    /\ UNCHANGED <<now, env, cafes, rl, call, pin, pout, checkins>>

\* The store serves the read-back of lines 239-242, and lines 244-251 answer.
StoreCafesSelectMiss(r, fail) ==
    /\ req[r].pc = "miss_select"
    /\ req' = [req EXCEPT ![r] =
                  IF fail THEN Fail(FailedOp(req[r], "cafes.select"), StoreError.err[1])
                  ELSE Respond(Op(req[r], "cafes.select"), 200, "google", "",
                               SelectCafesIn(cafes, PlaceIds(req[r].rows)))]
    /\ UNCHANGED <<now, env, places_cache, cafes, rl, call, pin, pout, checkins>>

Next ==
    \/ Tick
    \/ \E q \in Queries : Arrive(q)
    \/ \E r \in 1..Len(req) :
          \/ \E fail \in BOOLEAN : StoreCacheSelect(r, fail)
          \/ AfterLookup(r)
          \/ \E fail \in BOOLEAN : StoreCafesSelectHit(r, fail)
          \/ \E reply \in UpstreamReplies, d \in {0, 1} : UpstreamReturns(r, reply, d)
          \/ \E fail \in BOOLEAN : StoreCafesUpsert(r, fail)
          \/ \E d \in {0, 1} : AfterCafesUpsert(r, d)
          \/ \E fail \in BOOLEAN : StoreCacheUpsert(r, fail)
          \/ \E fail \in BOOLEAN : StoreCafesSelectMiss(r, fail)

Spec == Init /\ [][Next]_vars

(***************************************************************************)
(* SpecLive: Spec with the scheduling the code can count on: the handler   *)
(* runs each of its steps once the reply it waits for is there, and the    *)
(* store answers every call (with rows or with an error).  Nothing makes   *)
(* the provider answer: the fetch of searchNearbyPlaces (lines 61-73) has  *)
(* no signal and no timer, and GET awaits it at line 175 without one.      *)
(***************************************************************************)
HandlerOrStoreStep(r) ==
    /\ r <= Len(req)
    /\ \/ \E fail \in BOOLEAN : StoreCacheSelect(r, fail)
       \/ AfterLookup(r)
       \/ \E fail \in BOOLEAN : StoreCafesSelectHit(r, fail)
       \/ \E fail \in BOOLEAN : StoreCafesUpsert(r, fail)
       \/ \E d \in {0, 1} : AfterCafesUpsert(r, d)
       \/ \E fail \in BOOLEAN : StoreCacheUpsert(r, fail)
       \/ \E fail \in BOOLEAN : StoreCafesSelectMiss(r, fail)

SpecLive == Init /\ [][Next]_vars /\ \A r \in 1..NReq : WF_vars(HandlerOrStoreStep(r))

(***************************************************************************)
(* SpecHit: the requests of Spec, started 1 ms after a miss for HitQuery   *)
(* wrote its rows: cafes holds the rows of PlaceA and PlaceB and           *)
(* places_cache the row of lines 223-231 for them, fetched at 0.           *)
(***************************************************************************)
HitQuery == [lat |-> Some("37.7749"), lng |-> Some("-122.4194"), radius |-> None]
HitEnv == [precision |-> None, ttl |-> Some("60")]

HitRow ==
    LET p == ParseQuery(HitQuery, HitEnv)
    IN  [cache_key  |-> p.key,
         lat_center |-> JsonNumber(roundCoord(p.lat, p.precision)),
         lng_center |-> JsonNumber(roundCoord(p.lng, p.precision)),
         radius_m   |-> p.radiusM,
         place_ids  |-> PlaceIds(CafesToUpsert(<<PlaceA, PlaceB>>)),
         fetched_at |-> 0,
         expires_at |-> TtlMs(p.ttlSeconds)]

HitInit ==
    /\ now = 1
    /\ env = HitEnv
    /\ places_cache = {HitRow}
    /\ cafes = UpsertCafes({}, CafesToUpsert(<<PlaceA, PlaceB>>))
    /\ req = << >>
    /\ IdleLimiter /\ IdlePure

SpecHit == HitInit /\ [][Next]_vars

(***************************************************************************)
(* SpecNorm: the normalisation of GET (lines 179-205) applied to one       *)
(* record of the provider.                                                 *)
(***************************************************************************)
PriceLevelInputs ==
    {None, Some("PRICE_LEVEL_UNSPECIFIED"), Some("PRICE_LEVEL_FREE"),
     Some("PRICE_LEVEL_INEXPENSIVE"), Some("PRICE_LEVEL_MODERATE"),
     Some("PRICE_LEVEL_EXPENSIVE"), Some("PRICE_LEVEL_VERY_EXPENSIVE"), Some("")}

NormInputs ==
    [id : {None, Some(""), Some("A")},
     displayName : {None, Some(None), Some(Some("Alpha"))},
     location : {None, Loc},
     rating : {None, Some(4)},
     priceLevel : PriceLevelInputs]

NormInit ==
    /\ IdleCafes /\ IdleLimiter
    /\ pin \in {Some(p) : p \in NormInputs}
    /\ pout = None

Normalize ==
    /\ pin # None /\ pout = None
    /\ pout' = Some(NormalizePlace(pin[1]))
    /\ UNCHANGED <<now, env, places_cache, cafes, req, rl, call, pin, checkins>>

NormNext == Normalize

SpecNorm == NormInit /\ [][NormNext]_vars

(***************************************************************************)
(* SpecRL: up to NCalls calls of enforceRateLimit on one route, run        *)
(* concurrently against the store, with the limit drawn from 1..MaxLimit.  *)
(* A call is a record: pc ("rpc": the rpc is sent; "rpc_ret": the store    *)
(* has served it; "done"), its headers and opts, the reply [err, data] it  *)
(* resumes on, its result (threw: the error was thrown instead), the store *)
(* operations made for it (ops), and, from the store serving it, its rank  *)
(* among the calls served (order) and the time (servedAt).                 *)
(***************************************************************************)
NCalls        == 3
MaxLimit      == 2
WindowSeconds == 60
Route         == "POST /api/checkins"

HeaderInputs ==
    {[xff |-> Some("1.1.1.1, 10.0.0.1"), realIp |-> None],
     [xff |-> None, realIp |-> Some(" 1.1.1.1")],
     [xff |-> None, realIp |-> None]}

NoData == [kind |-> "null", rows |-> << >>]
NoResult == [allowed |-> FALSE, used |-> 0, limit |-> 0, resetAt |-> 0]

RLInit ==
    /\ now = 0 /\ env = NoEnv /\ places_cache = {} /\ cafes = {} /\ req = << >>
    /\ rl = {} /\ call = << >> /\ checkins = {}
    /\ pin \in {Some([limit |-> l]) : l \in 1..MaxLimit}
    /\ pout = None

IpHash(c) == sha256Base64Url(getClientIp(c.headers))
Served(c) == c.order > 0

\* enforceRateLimit, lines 111-121: the fingerprint is made and the rpc sent.
BeginCall(headers) ==
    /\ Len(call) < NCalls
    /\ call' = Append(call,
                      [pc |-> "rpc", headers |-> headers,
                       opts |-> [route |-> Route, limit |-> pin[1].limit,
                                 windowSeconds |-> WindowSeconds],
                       err |-> None, data |-> NoData, threw |-> FALSE,
                       result |-> NoResult, ops |-> << >>,
                       order |-> 0, servedAt |-> -1])
    /\ UNCHANGED <<now, env, places_cache, cafes, req, rl, pin, pout, checkins>>

\* The store serves the rpc: it fails, or it counts the hit and returns the
\* row (alone, or as the one element of an array).
StoreRateLimitHit(c, fail, asArray) ==
    /\ call[c].pc = "rpc"
    /\ LET x   == call[c]
           row == RateLimitHitRow(rl, x.opts.route, IpHash(x),
                                  x.opts.windowSeconds, x.opts.limit, now)
       IN  /\ call' = [call EXCEPT ![c] =
                         [x EXCEPT
                            !.pc = "rpc_ret",
                            !.ops = Append(x.ops, "rate_limit_hit"),
                            !.err = IF fail THEN Some("store error") ELSE None,
                            !.data = IF fail THEN NoData
                                     ELSE [kind |-> IF asArray THEN "array" ELSE "row",
                                           rows |-> <<row>>],
                            !.order = IF fail THEN 0
                                      ELSE 1 + Cardinality({d \in 1..Len(call) :
                                                               Served(call[d])}),
                            !.servedAt = IF fail THEN -1 ELSE now]]
           /\ rl' = IF fail THEN rl
                    ELSE RateLimitHitTable(rl, x.opts.route, IpHash(x),
                                           x.opts.windowSeconds, now)
    /\ fail => ~asArray
    /\ UNCHANGED <<now, env, places_cache, cafes, req, pin, pout, checkins>>

\* enforceRateLimit, lines 123-134: the error is thrown, or the result made.
ReturnCall(c) ==
    /\ call[c].pc = "rpc_ret"
    /\ call' = [call EXCEPT ![c] =
                  IF call[c].err # None
                  THEN [call[c] EXCEPT !.pc = "done", !.threw = TRUE, !.data = NoData]
                  ELSE [call[c] EXCEPT
                          !.pc = "done", !.data = NoData,
                          !.result = RateLimitResult(call[c].data, call[c].opts, now)]]
    /\ UNCHANGED <<now, env, places_cache, cafes, req, rl, pin, pout, checkins>>

RLNext ==
    \/ Tick
    \/ \E h \in HeaderInputs : BeginCall(h)
    \/ \E c \in 1..Len(call) :
          \/ \E fail, asArray \in BOOLEAN : StoreRateLimitHit(c, fail, asArray)
          \/ ReturnCall(c)

SpecRL == RLInit /\ [][RLNext]_vars

(***************************************************************************)
(* SpecPost: up to NPost requests to POST /api/checkins, run concurrently  *)
(* against the store.  A request is a record: pc ("rl": the rpc of         *)
(* enforceRateLimit is sent; "rl_ret": the store has served it;            *)
(* "cafe_select", "insert": the store call awaited; "done"), its headers   *)
(* and body, the reply it resumes on, the result of enforceRateLimit (rl,  *)
(* with rlThrew when the error was thrown instead, rlFail when the store   *)
(* failed on the rpc, rlAt the time it returned), created_at of the row it *)
(* sends, its response and the store operations made for it.  The counter  *)
(* of a client starts anywhere a window of earlier requests can have left  *)
(* it.                                                                     *)
(***************************************************************************)
NPost     == 2
PostLimit == 10

PostOpts == [route |-> Route, limit |-> PostLimit, windowSeconds |-> WindowSeconds]

\* The body of a request: no JSON, or an object whose cafeId is missing
\* (typeof "undefined"), a number, or a string, with its text.
PostBodies ==
    {[json |-> FALSE, typeof |-> "undefined", cafeId |-> ""],
     [json |-> TRUE, typeof |-> "undefined", cafeId |-> ""],
     [json |-> TRUE, typeof |-> "number", cafeId |-> "7"],
     [json |-> TRUE, typeof |-> "string", cafeId |-> ""],
     [json |-> TRUE, typeof |-> "string", cafeId |-> "cafe-1"],
     [json |-> TRUE, typeof |-> "string", cafeId |-> "cafe-9"]}

PostHeaders ==
    {[xff |-> Some("1.1.1.1, 10.0.0.1"), realIp |-> None],
     [xff |-> None, realIp |-> None]}

NoPostResponse ==
    [status |-> 0, error |-> "", retryAfter |-> None, used |-> None,
     limit |-> None, resetAt |-> None, checkIn |-> None]

\* The counters earlier requests of the client 1.1.1.1 can have left.
PostCounters ==
    {{}} \cup {{[route |-> Route, ip_hash |-> sha256Base64Url("1.1.1.1"),
                 count |-> n, reset_at |-> WindowSeconds * 1000 - 500]} :
                  n \in (PostLimit - 1)..PostLimit}

PostInit ==
    /\ now = 0 /\ env = NoEnv /\ places_cache = {} /\ req = << >>
    /\ call = << >> /\ checkins = {} /\ IdlePure
    /\ cafes = {[id |-> "cafe-1"]}
    /\ rl \in PostCounters

\* Math.ceil(ms / 1000)
CeilSeconds(ms) == -((-ms) \div 1000)

\* The hint with the difference itself, not raised to 1.
RetryAfterSecUnclamped(resetAt, t) == CeilSeconds(resetAt - t)

\* POST, lines 16-19
RetryAfterSec(resetAt, t) ==
    IF CeilSeconds(resetAt - t) > 1 THEN CeilSeconds(resetAt - t) ELSE 1

\* A store error taken for an allowance.
EnforceRateLimitFailOpen(reply, opts, t) ==
    IF reply.err # None
    THEN [threw |-> FALSE, error |-> "",
          result |-> [allowed |-> TRUE, used |-> 0, limit |-> opts.limit,
                      resetAt |-> t + opts.windowSeconds * 1000]]
    ELSE [threw |-> FALSE, error |-> "",
          result |-> RateLimitResult(reply.data, opts, t)]

\* enforceRateLimit, lines 123-134, on the reply [err, data] of the rpc.
EnforceRateLimit(reply, opts, t) ==
    IF reply.err # None
    THEN [threw |-> TRUE, error |-> reply.err[1], result |-> NoResult]
    ELSE [threw |-> FALSE, error |-> "",
          result |-> RateLimitResult(reply.data, opts, t)]

PostRespond(r, res) == [r EXCEPT !.pc = "done", !.reply = NoReply, !.res = res]
\* The catch block, lines 81-86.
PostFail(r, message) ==
    PostRespond(r, [NoPostResponse EXCEPT !.status = 500, !.error = message])
PostError(r, status, message) ==
    PostRespond(r, [NoPostResponse EXCEPT !.status = status, !.error = message])

\* POST, lines 5-13, and enforceRateLimit, lines 111-121: the rpc is sent.
PostArrive(headers, body) ==
    /\ Len(req) < NPost
    /\ req' = Append(req,
                     [pc |-> "rl", headers |-> headers, body |-> body,
                      reply |-> NoReply, rl |-> NoResult, rlThrew |-> FALSE,
                      rlFail |-> FALSE, rlAt |-> -1, created_at |-> -1,
                      res |-> NoPostResponse, ops |-> << >>])
    /\ UNCHANGED <<now, env, places_cache, cafes, rl, call, pin, pout, checkins>>

\* The store serves the rpc: it fails, or it counts the hit and returns the
\* row (alone, or as the one element of an array).
PostStoreRateLimitHit(r, fail, asArray) ==
    /\ req[r].pc = "rl"
    /\ fail => ~asArray
    /\ LET ipHash == sha256Base64Url(getClientIp(req[r].headers))
           row    == RateLimitHitRow(rl, PostOpts.route, ipHash,
                                     PostOpts.windowSeconds, PostOpts.limit, now)
       IN  /\ req' = [req EXCEPT ![r] =
                        [Op(req[r], "rate_limit_hit") EXCEPT
                           !.pc = "rl_ret", !.rlFail = fail,
                           !.reply =
                              IF fail THEN [err |-> Some("store error"), data |-> NoData]
                              ELSE [err |-> None,
                                    data |-> [kind |-> IF asArray THEN "array" ELSE "row",
                                              rows |-> <<row>>]]]]
           /\ rl' = IF fail THEN rl
                    ELSE RateLimitHitTable(rl, PostOpts.route, ipHash,
                                           PostOpts.windowSeconds, now)
    /\ UNCHANGED <<now, env, places_cache, cafes, call, pin, pout, checkins>>

\* enforceRateLimit returns or throws, and POST, lines 15-45, runs: a denial
\* is answered 429, a body that is no JSON throws, a cafeId that is missing
\* or no string is answered 400; else the read of the cafe is sent.
PostAfterRateLimit(r) ==
    /\ req[r].pc = "rl_ret"
    /\ LET x   == req[r]
           out == EnforceRateLimit(x.reply, PostOpts, now)
           y   == [x EXCEPT !.rl = out.result, !.rlThrew = out.threw, !.rlAt = now]
       IN  req' = [req EXCEPT ![r] =
                     IF out.threw THEN PostFail(y, out.error)
                     ELSE IF ~out.result.allowed
                     THEN PostRespond(y,
                              [NoPostResponse EXCEPT
                                  !.status = 429, !.error = "Rate limit exceeded",
                                  !.used = Some(out.result.used),
                                  !.limit = Some(out.result.limit),
                                  !.resetAt = Some(out.result.resetAt),
                                  !.retryAfter =
                                      Some(RetryAfterSec(out.result.resetAt, now))])
                     ELSE IF ~x.body.json
                     THEN PostFail(y, "Unexpected end of JSON input")
                     ELSE IF x.body.typeof = "undefined" \/ x.body.cafeId = ""
                                \/ x.body.typeof # "string"
                     THEN PostError(y, 400, "Missing or invalid cafeId")
                     ELSE [y EXCEPT !.pc = "cafe_select", !.reply = NoReply]]
    /\ UNCHANGED <<now, env, places_cache, cafes, rl, call, pin, pout, checkins>>

\* PostStoreCafeSelect without lines 58-63: the insert is sent whether the
\* read found the cafe or not.
PostStoreCafeSelectNoCheck(r, fail) ==
    /\ req[r].pc = "cafe_select"
    /\ LET x == Op(req[r], "cafes.select")
       IN  req' = [req EXCEPT ![r] =
                     IF fail THEN PostFail(x, "store error")
                     ELSE [x EXCEPT !.pc = "insert", !.created_at = now]]
    /\ UNCHANGED <<now, env, places_cache, cafes, rl, call, pin, pout, checkins>>

\* The store serves the read of lines 50-54, and lines 56-71 run: an error
\* is thrown, no cafe is answered 404; else the insert is sent.
PostStoreCafeSelect(r, fail) ==
    /\ req[r].pc = "cafe_select"
    /\ LET x     == Op(req[r], "cafes.select")
           found == {c \in cafes : c.id = x.body.cafeId}
       IN  req' = [req EXCEPT ![r] =
                     IF fail THEN PostFail(x, "store error")
                     ELSE IF found = {} THEN PostError(x, 404, "Cafe not found")
                     ELSE [x EXCEPT !.pc = "insert", !.created_at = now]]
    /\ UNCHANGED <<now, env, places_cache, cafes, rl, call, pin, pout, checkins>>

\* The store serves the insert of lines 64-71, and lines 73-78 answer.
PostStoreInsert(r, fail) ==
    /\ req[r].pc = "insert"
    /\ LET x   == Op(req[r], "checkins.insert")
           row == [id |-> Cardinality(checkins) + 1,
                   cafe_id |-> x.body.cafeId, created_at |-> x.created_at]
       IN  /\ req' = [req EXCEPT ![r] =
                        IF fail THEN PostFail(x, "store error")
                        ELSE PostRespond(x, [NoPostResponse EXCEPT
                                                !.status = 200, !.checkIn = Some(row)])]
           /\ checkins' = IF fail THEN checkins ELSE checkins \cup {row}
    /\ UNCHANGED <<now, env, places_cache, cafes, rl, call, pin, pout>>

PostNext ==
    \/ Tick
    \/ \E h \in PostHeaders, b \in PostBodies : PostArrive(h, b)
    \/ \E r \in 1..Len(req) :
          \/ \E fail, asArray \in BOOLEAN : PostStoreRateLimitHit(r, fail, asArray)
          \/ PostAfterRateLimit(r)
          \/ \E fail \in BOOLEAN : PostStoreCafeSelect(r, fail)
          \/ \E fail \in BOOLEAN : PostStoreInsert(r, fail)

SpecPost == PostInit /\ [][PostNext]_vars

(***************************************************************************)
(* SpecReply: lines 125-134 of enforceRateLimit applied to one reply of    *)
(* the store that reports no error: the row of a counter (alone or in an   *)
(* array) with any of its fields missing, an empty array, or null.         *)
(***************************************************************************)
ReplyOpts == [route : {Route}, limit : 1..MaxLimit, windowSeconds : {WindowSeconds}]

ReplyRows(opts) ==
    {[allowed  |-> IF "allowed" \in keep THEN Some(n <= opts.limit) ELSE None,
      used     |-> IF "used" \in keep THEN Some(n) ELSE None,
      limit    |-> IF "limit" \in keep THEN Some(opts.limit) ELSE None,
      reset_at |-> IF "reset_at" \in keep THEN Some(opts.windowSeconds * 1000) ELSE None] :
        n \in 1..(MaxLimit + 1),
        keep \in SUBSET {"allowed", "used", "limit", "reset_at"}}

ReplyData(opts) ==
    {NoData, [kind |-> "array", rows |-> << >>]}
        \cup {[kind |-> k, rows |-> <<row>>] :
                 k \in {"row", "array"}, row \in ReplyRows(opts)}

ReplyInit ==
    /\ IdleCafes /\ IdleLimiter
    /\ pin \in UNION {{Some([data |-> d, opts |-> o]) : d \in ReplyData(o)} :
                        o \in ReplyOpts}
    /\ pout = None

ConvertReply ==
    /\ pin # None /\ pout = None
    /\ pout' = Some(RateLimitResult(pin[1].data, pin[1].opts, now))
    /\ UNCHANGED <<now, env, places_cache, cafes, req, rl, call, pin, checkins>>

ReplyNext == ConvertReply

SpecReply == ReplyInit /\ [][ReplyNext]_vars

(***************************************************************************)
(* SpecRadius: the radius of GET (lines 121 and 130) derived from one raw  *)
(* radius parameter, and clamped once more.                                *)
(***************************************************************************)
MaxRadiusStep == 60

RadiusCases ==
    {None, Some(""), Some(" "), Some("abc"), Some("Infinity"), Some("-Infinity"),
     Some("-100"), Some("199.5"), Some("200.5"), Some("5000.5"), Some(" 300 ")}
        \cup {Some(NatToString(k * 100)) : k \in 0..MaxRadiusStep}

RadiusInit ==
    /\ IdleCafes /\ IdleLimiter
    /\ pin \in {Some(raw) : raw \in RadiusCases}
    /\ pout = None

ClampRadius ==
    /\ pin # None /\ pout = None
    /\ LET radius  == toNumber(pin[1])
           radiusM == QueryRadiusM(radius)
       IN  pout' = Some([radius |-> radius, radiusM |-> radiusM,
                         again |-> clamp(radiusM, Int2Num(MinRadius),
                                         Int2Num(MaxRadius))])
    /\ UNCHANGED <<now, env, places_cache, cafes, req, rl, call, pin, checkins>>

RadiusNext == ClampRadius

SpecRadius == RadiusInit /\ [][RadiusNext]_vars

(***************************************************************************)
(* SpecPrecision: the precision of GET (lines 132-136) derived from one    *)
(* value of PLACES_QUERY_LATLNG_PRECISION, unset or a text.                *)
(***************************************************************************)
MaxPrecisionStep == 12

PrecisionCases ==
    {None, Some(""), Some(" "), Some("abc"), Some("3px"), Some("NaN"),
     Some("Infinity"), Some("-Infinity"), Some("-1"), Some("-3"), Some(" 4 "),
     Some("+4")}
        \cup {Some(NatToString(k) \o frac) :
                 k \in 0..MaxPrecisionStep,
                 frac \in {"", ".0", ".5", ".000001", ".999999"}}

PrecisionInit ==
    /\ IdleCafes /\ IdleLimiter
    /\ pin \in {Some(raw) : raw \in PrecisionCases}
    /\ pout = None

ClampPrecision ==
    /\ pin # None /\ pout = None
    /\ pout' = Some([precision |-> EnvPrecision([precision |-> pin[1],
                                                  ttl |-> None])])
    /\ UNCHANGED <<now, env, places_cache, cafes, req, rl, call, pin, checkins>>

PrecisionNext == ClampPrecision

SpecPrecision == PrecisionInit /\ [][PrecisionNext]_vars

(***************************************************************************)
(* The claims about GET /api/cafes, under Spec.                            *)
(***************************************************************************)
Requests == {req[r] : r \in 1..Len(req)}
Called(x, name) == \E i \in 1..Len(x.ops) : x.ops[i] = name
UpstreamCalled(x) == Called(x, "searchNearbyPlaces")

\* The request has read the cache row of its key and compared it with the
\* clock: the row was there, not expired and listed a place ...
FoundFresh(x) ==
    /\ x.nowAt >= 0 /\ x.found # None
    /\ x.found[1].expires_at > x.nowAt
    /\ x.found[1].place_ids # << >>
\* ... was there and expired ...
FoundExpired(x) ==
    x.nowAt >= 0 /\ x.found # None /\ x.found[1].expires_at <= x.nowAt
\* ... or was there, not expired, and listed no place.
FoundEmpty(x) ==
    /\ x.nowAt >= 0 /\ x.found # None
    /\ x.found[1].expires_at > x.nowAt
    /\ x.found[1].place_ids = << >>

\* C1 as stated: a request that found a fresh cache row listing a place is
\* answered with source "cache", the provider never called.
C1_FreshAlwaysAnsweredFromCache ==
    \A x \in Requests :
        (x.pc = "done" /\ FoundFresh(x))
            => x.res.source = "cache" /\ ~UpstreamCalled(x)

\* C1 as amended: a request that found a fresh cache row listing a place
\* never calls the provider, makes exactly the lookup and the read of the
\* place rows, and is answered with source "cache" - or, when the store
\* fails on that read, with the store's error (500).
C1_FreshNeverCallsUpstream ==
    \A x \in Requests :
        FoundFresh(x) =>
            /\ ~UpstreamCalled(x)
            /\ x.pc \in {"hit_select", "done"}
            /\ x.pc = "done" =>
                  /\ x.ops = <<"places_cache.select", "cafes.select">>
                  /\ \/ x.res.status = 200 /\ x.res.source = "cache"
                     \/ x.res.status = 500 /\ x.res.error = "store error"

\* C1, witness: a request answered from a fresh cache row, with the rows of
\* the places it lists.
C1_Witness ==
    \E x \in Requests :
        /\ x.pc = "done" /\ FoundFresh(x)
        /\ x.res.status = 200 /\ x.res.source = "cache"
        /\ x.res.cafes # {}
        /\ ~UpstreamCalled(x)

\* The outcome of a request that ended.
UpstreamFailed(x) == x.res.status = 500 /\ x.up \in {"http_error", "network"}
StoreFailed(x) == x.res.status = 500 /\ x.res.error = "store error"

C6_RateLimitBeforeLookup ==
    \A x \in Requests :
        \A i \in 1..Len(x.ops) :
            x.ops[i] = "places_cache.select"
                => \E j \in 1..(i - 1) : x.ops[j] = "rate_limit_hit"

\* A raw coordinate parameter that is missing or malformed: absent, empty
\* (or blank), or not the text of a finite decimal number.
Malformed(raw) ==
    \/ raw = None
    \/ LET t    == TrimRight(TrimLeft(raw[1]))
           body == IF Len(t) > 0 /\ CharAt(t, 1) \in {"-", "+"}
                   THEN SubSeq(t, 2, Len(t)) ELSE t
       IN  ~IsUnsignedDecimal(body)

\* C8 as stated: a request whose lat or lng is missing or malformed is
\* answered 400, and no store operation or provider call is made for it.
C8_MalformedRejected ==
    \A x \in Requests :
        (Malformed(x.q.lat) \/ Malformed(x.q.lng))
            => x.pc = "done" /\ x.res.status = 400 /\ x.ops = << >>

\* The value of a finite number in units of 10^-6.
Micro(n) == n.i * Scale + n.f

\* C9: two queries whose coordinates round to the same values at the
\* precision in force, and whose clamped radius is the same, get the same
\* cache key.
C9_SameBucketSameKey ==
    pout # None =>
        LET a == pout[1].a
            b == pout[1].b
        IN  (a.ok /\ b.ok /\ Rounded(a) = Rounded(b) /\ a.radiusM = b.radiusM)
                => a.key = b.key

\* C9, witness: two queries with different latitudes, longitudes and requested
\* radii that fall in one bucket and got one key.
C9_Witness ==
    /\ pout # None
    /\ pout[1].a.ok /\ pout[1].b.ok
    /\ pout[1].a.lat # pout[1].b.lat /\ pout[1].a.lng # pout[1].b.lng
    /\ pin[1].a.radius # pin[1].b.radius
    /\ Rounded(pout[1].a) = Rounded(pout[1].b)
    /\ pout[1].a.key = pout[1].b.key

\* Rounding n to the digit of step 1/f with a tie going away from zero,
\* in units of 10^-6.
HalfAwayFromZero(n, f) ==
    LET g == Scale \div f
        x == Micro(n)
    IN  IF x >= 0 THEN ((2 * x + g) \div (2 * g)) * g
        ELSE -(((2 * (-x) + g) \div (2 * g)) * g)

\* C10 as stated: roundCoord rounds half away from zero, for positive and
\* negative coordinates alike.
C10_HalfAwayFromZero ==
    pout # None =>
        LET a == pout[1].a
        IN  (a.ok /\ a.precision.k = "num")
                => Micro(roundCoord(a.lat, a.precision))
                       = HalfAwayFromZero(a.lat, 10^a.precision.i)

\* C10 as amended: roundCoord yields the multiple of the step nearest to the
\* coordinate, and of the two nearest multiples of a coordinate exactly
\* halfway the larger one: away from zero for a positive coordinate, toward
\* zero for a negative one.
C10_HalfTowardPlusInfinity ==
    pout # None =>
        LET a == pout[1].a
        IN  (a.ok /\ a.precision.k = "num")
                => LET g == Scale \div 10^a.precision.i
                       x == Micro(a.lat)
                       r == Micro(roundCoord(a.lat, a.precision))
                   IN  /\ r % g = 0
                       /\ 2 * r - g <= 2 * x
                       /\ 2 * x < 2 * r + g

\* C10, witness: a negative latitude exactly halfway between two steps was
\* rounded to the step nearer to zero.
C10_Witness ==
    /\ pout # None
    /\ pout[1].a.ok /\ pout[1].a.precision.k = "num"
    /\ LET a == pout[1].a
           g == Scale \div 10^a.precision.i
           x == Micro(a.lat)
           r == Micro(roundCoord(a.lat, a.precision))
       IN  x < 0 /\ 2 * (r - x) = g

(***************************************************************************)
(* The claims about the rate limiter, under SpecRL and SpecReply.          *)
(***************************************************************************)
Calls == 1..Len(call)
Returned(c) == call[c].pc = "done" /\ ~call[c].threw
SameCounter(c, d) ==
    call[c].opts.route = call[d].opts.route /\ IpHash(call[c]) = IpHash(call[d])
\* The calls on the counter of d that the store served before d.
ServedBefore(d) ==
    {c \in Calls : Served(call[c]) /\ SameCounter(c, d)
                      /\ call[c].order < call[d].order}
WindowMs(c) == call[c].opts.windowSeconds * 1000

\* C3: of the calls on one counter, in the order the store served them: the
\* first returns used = 1; a call served before the resetAt of the one
\* before it returns its used plus 1 and the same resetAt; a call served at
\* or after that resetAt returns used = 1 and a new resetAt; and every call
\* returns allowed exactly when its used is at most the limit.
C3_WindowCounts ==
    \A d \in Calls :
        Returned(d) =>
            LET x    == call[d]
                prev == ServedBefore(d)
                p    == CHOOSE c \in prev : \A e \in prev : call[e].order <= call[c].order
            IN  /\ x.result.allowed = (x.result.used <= x.opts.limit)
                /\ x.result.limit = x.opts.limit
                /\ prev = {} =>
                      /\ x.result.used = 1
                      /\ x.result.resetAt = x.servedAt + WindowMs(d)
                /\ (prev # {} /\ Returned(p)) =>
                      IF x.servedAt < call[p].result.resetAt
                      THEN /\ x.result.used = call[p].result.used + 1
                           /\ x.result.resetAt = call[p].result.resetAt
                      ELSE /\ x.result.used = 1
                           /\ x.result.resetAt = x.servedAt + WindowMs(d)

\* C3, witness: with limit 1, three calls on one counter: the first allowed
\* with used 1, the second in the same window denied with used 2, the third
\* after resetAt allowed with used 1.
C3_Witness ==
    \E a, b, c \in Calls :
        /\ Returned(a) /\ Returned(b) /\ Returned(c)
        /\ SameCounter(a, b) /\ SameCounter(b, c)
        /\ call[a].order < call[b].order /\ call[b].order < call[c].order
        /\ call[a].opts.limit = 1
        /\ call[a].result.allowed /\ call[a].result.used = 1
        /\ ~call[b].result.allowed /\ call[b].result.used = 2
        /\ call[b].result.resetAt = call[a].result.resetAt
        /\ call[c].servedAt >= call[a].result.resetAt
        /\ call[c].result.allowed /\ call[c].result.used = 1

\* C4: every call that ended made exactly one store operation, the
\* rate_limit_hit rpc, and of the calls on one counter that return the same
\* resetAt (one window) at most limit return allowed.
C4_AtMostLimitAllowed ==
    /\ \A c \in Calls :
          /\ call[c].pc = "done" => call[c].ops = <<"rate_limit_hit">>
          /\ Len(call[c].ops) <= 1
    /\ \A d \in Calls :
          Returned(d) =>
              Cardinality({c \in Calls :
                              /\ Returned(c) /\ SameCounter(c, d)
                              /\ call[c].result.resetAt = call[d].result.resetAt
                              /\ call[c].result.allowed}) <= call[d].opts.limit

\* C4, witness: three calls on one counter were in flight together, the
\* store served each of them before any returned, and of the three results
\* exactly limit = 2 are allowances.
C4_Witness ==
    \E a, b, c \in Calls :
        /\ a # b /\ b # c /\ a # c
        /\ SameCounter(a, b) /\ SameCounter(b, c)
        /\ call[a].opts.limit = 2
        /\ \A e \in {a, b, c} : call[e].pc = "rpc_ret" /\ Served(call[e])
        /\ \A e \in {b, c} :
              call[e].data.rows[1].reset_at = call[a].data.rows[1].reset_at
        /\ Cardinality({e \in {a, b, c} :
              RateLimitResult(call[e].data, call[e].opts, now).allowed}) = 2

\* The reply carries a row, and the row each of the fields read.
HasRow(data) == data.kind # "null" /\ data.rows # << >>
CompleteRow(data) ==
    /\ HasRow(data)
    /\ data.rows[1].allowed # None /\ data.rows[1].used # None
    /\ data.rows[1].limit # None

\* C5 as stated: for every reply without an error the result has
\* allowed = (used <= limit).
C5_AllowedIffWithinLimit ==
    pout # None => (pout[1].allowed = (pout[1].used <= pout[1].limit))

\* C5 as amended: the result never has allowed with used above limit; for a
\* reply carrying a complete row it has allowed = (used <= limit), with the
\* row's values; for a reply without a row (null, an empty array) or whose
\* row has no allowed field it has allowed = false, and used = 0 when the
\* row or its used field is missing.
C5_NeverAllowedAboveLimit ==
    pout # None =>
        LET data == pin[1].data
            res  == pout[1]
        IN  /\ res.allowed => res.used <= res.limit
            /\ CompleteRow(data) =>
                  /\ res.allowed = (res.used <= res.limit)
                  /\ res.used = data.rows[1].used[1]
                  /\ res.limit = data.rows[1].limit[1]
            /\ (~HasRow(data) \/ data.rows[1].allowed = None) => ~res.allowed
            /\ (~HasRow(data) \/ data.rows[1].used = None) => res.used = 0

\* C5, witness: the reply null gave a result with allowed = false and
\* used = 0, at most the limit.
C5_Witness ==
    /\ pout # None /\ pin[1].data.kind = "null"
    /\ ~pout[1].allowed /\ pout[1].used = 0 /\ pout[1].used <= pout[1].limit

(***************************************************************************)
(* The claim about the normalisation, under SpecNorm.                      *)
(***************************************************************************)
\* The ordinal of each tier of the provider, << >> for any other value.
TierOrdinal(priceLevel) ==
    IF priceLevel = Some("PRICE_LEVEL_FREE") THEN Some(0)
    ELSE IF priceLevel = Some("PRICE_LEVEL_INEXPENSIVE") THEN Some(1)
    ELSE IF priceLevel = Some("PRICE_LEVEL_MODERATE") THEN Some(2)
    ELSE IF priceLevel = Some("PRICE_LEVEL_EXPENSIVE") THEN Some(3)
    ELSE IF priceLevel = Some("PRICE_LEVEL_VERY_EXPENSIVE") THEN Some(4)
    ELSE None

\* C7 as stated: the row made of a record of the provider has the ordinal of
\* the record's tier as its price_level - free 0, inexpensive 1, moderate 2,
\* expensive 3, very_expensive 4 - and none for any other or no tier.
C7_PriceTierOrdinals ==
    (pout # None /\ pout[1] # None)
        => pout[1][1].price_level = TierOrdinal(pin[1].priceLevel)

(***************************************************************************)
(* The claim about the radius, under SpecRadius.                           *)
(***************************************************************************)
\* The number a raw parameter that is the text of a finite decimal denotes.
Denoted(raw) == StringToNumber(raw[1])

\* C11 as stated: the radius used lies in [200, 5000]; a requested radius
\* below 200 becomes 200, one above 5000 becomes 5000, one in between is
\* kept; an absent or unparsable radius becomes the default 1500; and
\* clamping the radius used once more leaves it as it is.
C11_RadiusSaturatesOrDefaults ==
    pout # None =>
        LET raw == pin[1]
            r   == pout[1].radiusM
            lo  == Int2Num(MinRadius)
            hi  == Int2Num(MaxRadius)
        IN  /\ r.k = "num" /\ ~NumLess(r, lo) /\ ~NumLess(hi, r)
            /\ pout[1].again = r
            /\ Malformed(raw) => r = Int2Num(DefaultRadius)
            /\ ~Malformed(raw) =>
                  r = IF NumLess(Denoted(raw), lo) THEN lo
                      ELSE IF NumLess(hi, Denoted(raw)) THEN hi
                      ELSE Denoted(raw)

(***************************************************************************)
(* The claims about the miss path and the failures of GET, under Spec.     *)
(***************************************************************************)
\* C12 as stated: every row of places_cache has
\* expires_at = fetched_at + the configured TTL.
C12_ExpiryIsFetchPlusTtl ==
    \A row \in places_cache :
        row.expires_at = row.fetched_at + TtlMs(EnvTtlSeconds(env))

\* The request has its cache row in the table.
Wrote(r) == req[r].wrote

\* C13: places_cache holds at most one row per key; every row of it is the
\* row one request wrote, whole; the place ids a request writes are those of
\* the rows it normalised; and when the store serves a request's write, the
\* row of the key is that request's row, whatever was there before.
C13_LastWriterWins ==
    /\ [](/\ \A a, b \in places_cache : a.cache_key = b.cache_key => a = b
          /\ \A row \in places_cache :
                \E x \in Requests : x.wrote /\ x.entry[1] = row
          /\ \A x \in Requests :
                x.pc \in {"cache_upsert", "miss_select"}
                    => x.entry[1].place_ids = PlaceIds(x.rows))
    /\ [][\A r \in 1..Len(req) :
             (~Wrote(r) /\ Wrote(r)')
                 => SelectCache(places_cache', req'[r].entry[1].cache_key)
                        = {req'[r].entry[1]}]_vars

\* C13, witness: two requests for one key both missed (neither found a row),
\* both called the provider and both wrote, with different place ids, and
\* the row of the key is the row of one of them.
C13_Witness ==
    \E x, y \in Requests :
        /\ x.pc = "done" /\ y.pc = "done" /\ x.wrote /\ y.wrote
        /\ x.entry[1].cache_key = y.entry[1].cache_key
        /\ x.nowAt >= 0 /\ y.nowAt >= 0 /\ x.found = None /\ y.found = None
        /\ UpstreamCalled(x) /\ UpstreamCalled(y)
        /\ x.entry[1].place_ids # y.entry[1].place_ids
        /\ x.entry[1].place_ids # << >> /\ y.entry[1].place_ids # << >>
        /\ SelectCache(places_cache, y.entry[1].cache_key) = {y.entry[1]}

\* The rows of the table cafes with the place id of row.
CafesOf(table, row) == {c \in table : c.place_id = row.place_id}

\* C14: cafes holds at most one row per place id, and when the store has
\* served an upsert, the row of each place id upserted is the row upserted.
C14_OneRowPerPlace ==
    /\ [](\A a, b \in cafes : a.place_id = b.place_id => a = b)
    /\ [][\A r \in 1..Len(req) :
             (/\ req[r].pc = "cafes_upsert"
              /\ req'[r].pc = "cafes_upsert_ret"
              /\ req'[r].reply.err = None)
                 => \A i \in 1..Len(req[r].rows) :
                       CafesOf(cafes', req[r].rows[i]) = {req[r].rows[i]}]_vars

\* C14, witness: two requests upserted place "A", one with rating 4 and the
\* name "Alpha", one with rating 5 and no name, and cafes holds one row of
\* "A", that of rating 5.
C14_Witness ==
    \E x, y \in Requests :
        /\ x.pc \in {"cafes_upsert_ret", "cache_upsert", "miss_select"}
        /\ y.pc \in {"cafes_upsert_ret", "cache_upsert", "miss_select"}
        /\ x.storeFail = "" /\ y.storeFail = ""
        /\ \E i \in 1..Len(x.rows) :
              x.rows[i].place_id = "A" /\ x.rows[i].google_rating = Some(4)
        /\ \E j \in 1..Len(y.rows) :
              /\ y.rows[j].place_id = "A" /\ y.rows[j].google_rating = Some(5)
              /\ CafesOf(cafes, y.rows[j]) = {y.rows[j]}

\* C15: a request whose provider call failed (a status that is no success,
\* or a network error) is answered 500 with the error's message - for a
\* status, the status and the text of the provider's reply - and no places;
\* it made no store operation after its lookup, and wrote no cache row.
C15_UpstreamFailureFailsRequest ==
    \A x \in Requests :
        x.up \in {"http_error", "network"} =>
            /\ x.pc = "done" /\ x.res.status = 500
            /\ x.res.source = "" /\ x.res.cafes = {}
            /\ x.up = "http_error" =>
                  x.res.error = "Google Places error 503: unavailable"
            /\ x.up = "network" => x.res.error = "fetch failed"
            /\ x.ops = <<"places_cache.select", "searchNearbyPlaces">>
            /\ ~x.wrote /\ x.entry = None

\* C15, witness: a request found the row of its key expired, its provider
\* call was answered 503, it was answered 500, and the row is as it was.
C15_Witness ==
    \E x \in Requests :
        /\ x.up = "http_error" /\ x.pc = "done" /\ x.res.status = 500
        /\ FoundExpired(x)
        /\ SelectCache(places_cache, Parsed(x).key) = {x.found[1]}

\* C16: a request for which a store operation failed is answered 500 with no
\* places, once it resumes; when the lookup failed it never calls the
\* provider, and when an upsert failed its cache row is not written.
C16_StoreFailureFailsRequest ==
    \A x \in Requests :
        x.storeFail # "" =>
            /\ x.pc \in {"lookup_ret", "cafes_upsert_ret", "done"}
            /\ x.pc = "done" =>
                  /\ x.res.status = 500 /\ x.res.error = "store error"
                  /\ x.res.source = "" /\ x.res.cafes = {}
            /\ x.storeFail = "places_cache.select" =>
                  /\ x.ops = <<"places_cache.select">>
                  /\ x.pc \in {"lookup_ret", "done"}
            /\ x.storeFail \in {"cafes.upsert", "places_cache.upsert"} => ~x.wrote
            /\ x.ops[Len(x.ops)] = x.storeFail

\* C16, witness: the lookup failed for one request and the write of the
\* cache row for another; both were answered 500 and the first never called
\* the provider.
C16_Witness ==
    \E x, y \in Requests :
        /\ x.storeFail = "places_cache.select" /\ x.pc = "done"
        /\ x.res.status = 500 /\ ~UpstreamCalled(x)
        /\ y.storeFail = "places_cache.upsert" /\ y.pc = "done"
        /\ y.res.status = 500 /\ UpstreamCalled(y)

\* No value occurs twice in the sequence.
Distinct(ids) == \A i, j \in 1..Len(ids) : ids[i] = ids[j] => i = j

\* C20 as stated: the rows a request keeps to persist, and the place ids of
\* the cache row it makes, list each place id at most once.
C20_PlaceIdsDistinct ==
    \A x \in Requests :
        /\ Distinct(PlaceIds(x.rows))
        /\ x.entry # None => Distinct(x.entry[1].place_ids)

(***************************************************************************)
(* The claim about termination, under SpecLive.                            *)
(***************************************************************************)
Arrived(r) == r <= Len(req)
Answered(r) == r <= Len(req) /\ req[r].pc = "done"

\* C18 as stated: every request that arrived is eventually answered, also
\* when the provider never answers its call.
C18_EveryQueryAnswered == \A r \in 1..NReq : Arrived(r) ~> Answered(r)

(***************************************************************************)
(* The claims about POST /api/checkins, under SpecPost.                    *)
(***************************************************************************)
Posts == {req[r] : r \in 1..Len(req)}
\* enforceRateLimit returned a result to the request, and it denies.
Denied(x) == x.pc \notin {"rl", "rl_ret"} /\ ~x.rlThrew /\ ~x.rl.allowed

\* C17: a request for which the store failed on the rpc gets no result of
\* enforceRateLimit, allowed or not: the error is thrown, the request is
\* answered 500 with the error's message, and the rpc is the only store
\* operation made for it (no read of the cafe, no insert).
C17_LimiterErrorPropagates ==
    \A x \in Posts :
        x.rlFail =>
            /\ x.pc \in {"rl_ret", "done"}
            /\ x.rl = NoResult /\ ~x.rl.allowed
            /\ x.ops = <<"rate_limit_hit">>
            /\ x.pc = "done" =>
                  /\ x.rlThrew
                  /\ x.res.status = 500 /\ x.res.error = "store error"
                  /\ x.res.checkIn = None

\* C17, witness: the store failed on the rpc of a request for a cafe that
\* exists; the request was answered 500 and no check-in was inserted.
C17_Witness ==
    \E x \in Posts :
        /\ x.rlFail /\ x.pc = "done" /\ x.res.status = 500
        /\ x.body.json /\ x.body.typeof = "string" /\ x.body.cafeId = "cafe-1"
        /\ checkins = {}

\* C19: a request the limiter denied is answered 429 with the result's used,
\* limit and resetAt; its Retry-After is the time left until resetAt in
\* whole seconds, rounded up, and 1 when that is less than 1 (resetAt
\* passed); and the rpc is the only store operation made for it.
C19_DeniedAnswered429 ==
    \A x \in Posts :
        Denied(x) =>
            /\ x.pc = "done" /\ x.res.status = 429
            /\ x.res.used = Some(x.rl.used) /\ x.res.limit = Some(x.rl.limit)
            /\ x.res.resetAt = Some(x.rl.resetAt)
            /\ x.res.checkIn = None
            /\ x.ops = <<"rate_limit_hit">>
            /\ LET hint == x.res.retryAfter[1]
                   left == x.rl.resetAt - x.rlAt
               IN  /\ hint >= 1
                   /\ left <= 1000 => hint = 1
                   /\ left > 1000 =>
                         hint * 1000 >= left /\ (hint - 1) * 1000 < left

\* C19, witness: a request for a cafe that exists was denied, resumed after
\* resetAt had passed, and was answered 429 with Retry-After 1; no check-in
\* was inserted.
C19_Witness ==
    \E x \in Posts :
        /\ Denied(x) /\ x.res.status = 429
        /\ x.rl.used > x.rl.limit
        /\ x.rl.resetAt < x.rlAt /\ x.res.retryAfter = Some(1)
        /\ x.body.json /\ x.body.typeof = "string" /\ x.body.cafeId = "cafe-1"
        /\ checkins = {}

(***************************************************************************)
(* The claims about the records the provider returns, under Spec.          *)
(***************************************************************************)
\* A record of the provider that has an external identifier and coordinates.
HasIdAndCoordinates(p) == p.id # None /\ p.id # Some("") /\ p.location # None
HasNoDisplayName(p) == p.displayName = None \/ p.displayName[1] = None
\* The records a request received that have both, in the provider's order.
KeptOf(x) == SelectSeq(x.places, HasIdAndCoordinates)
KeptIds(x) == {KeptOf(x)[i].id[1] : i \in 1..Len(KeptOf(x))}

C22_PrecisionInRange ==
    pout # None =>
        LET precision == pout[1].precision
        IN  /\ precision.k = "num"
            /\ ~NumLess(precision, Int2Num(MinPrecision))
            /\ ~NumLess(Int2Num(MaxPrecision), precision)
            /\ pin[1] = None => precision = Int2Num(DefaultPrecision)

(***************************************************************************)
(* The claims about what the two paths of GET leave in the store, under    *)
(* Spec.                                                                   *)
(***************************************************************************)
\* C23: every identifier listed in a row of places_cache has a row in cafes;
\* a request whose upsert of the place rows failed has built and written no
\* cache row; and a step that changes places_cache serves the cache upsert
\* of a request that had no row to upsert or whose upsert of the place rows
\* was served without error before.
C23_CacheIdsHavePlaceRows ==
    /\ [](/\ \A e \in places_cache : \A i \in 1..Len(e.place_ids) :
                \E c \in cafes : c.place_id = e.place_ids[i]
          /\ \A x \in Requests :
                x.storeFail = "cafes.upsert" => x.entry = None /\ ~x.wrote)
    /\ [][places_cache' # places_cache =>
             \E r \in 1..Len(req) :
                 /\ req[r].pc = "cache_upsert" /\ req'[r].wrote
                 /\ req[r].storeFail = ""
                 /\ \/ req[r].rows = << >>
                    \/ Called(req[r], "cafes.upsert")
                 /\ \A i \in 1..Len(req[r].rows) :
                       \E c \in cafes : c.place_id = req[r].rows[i].place_id]_vars

\* C23, witness: a cache row lists two identifiers, written by one request,
\* while the upsert of the place rows of another request failed and that
\* request was answered 500.
C23_Witness ==
    /\ \E e \in places_cache : Len(e.place_ids) = 2
    /\ \E x \in Requests :
          /\ x.wrote /\ Len(x.entry[1].place_ids) = 2
    /\ \E x \in Requests :
          /\ x.storeFail = "cafes.upsert" /\ x.pc = "done"
          /\ x.res.status = 500 /\ Len(x.places) > 0

(***************************************************************************)
(* The claim about the hit path, under SpecHit.                            *)
(***************************************************************************)
\* C24: a request answered with source "cache" made two store calls, both
\* reads, called no provider and built no cache row, and the row it found is
\* the row written at 0 or the row a request wrote on the miss path, as
\* written; a step of a request between its arrival and its answer from the
\* cache changes neither cafes nor places_cache; and a cache row is changed
\* or removed only by the cache upsert of a request that called the
\* provider.
C24_HitIsReadOnly ==
    /\ [](\A x \in Requests :
             x.res.source = "cache" =>
                 /\ x.ops = <<"places_cache.select", "cafes.select">>
                 /\ x.up = "" /\ x.entry = None /\ ~x.wrote
                 /\ FoundFresh(x)
                 /\ \/ x.found[1] = HitRow
                    \/ \E y \in Requests : y.wrote /\ y.entry = x.found)
    /\ [][\A r \in 1..Len(req) :
             (/\ req'[r] # req[r]
              /\ \/ req'[r].pc \in {"lookup_ret", "hit_select"}
                 \/ req'[r].res.source = "cache")
                 => UNCHANGED <<cafes, places_cache>>]_vars
    /\ [][\A e \in places_cache :
             e \notin places_cache' =>
                 \E r \in 1..Len(req) :
                     /\ req[r].pc = "cache_upsert" /\ req'[r].wrote
                     /\ UpstreamCalled(req[r])
                     /\ req[r].entry[1].cache_key = e.cache_key]_vars

\* C24, witness: two requests were answered from the cache, one after the
\* other, and the row they found is still the row written at 0, with the
\* expiry set then.
C24_Witness ==
    /\ Len(req) = 2
    /\ \A r \in 1..2 :
          /\ req[r].pc = "done" /\ req[r].res.source = "cache"
          /\ req[r].found = Some(HitRow) /\ req[r].nowAt > HitRow.fetched_at
          /\ Cardinality(req[r].res.cafes) = 2
    /\ places_cache = {HitRow}
    /\ HitRow.expires_at = 60000

(***************************************************************************)
(* The claim about the rows of checkins, under SpecPost.                   *)
(***************************************************************************)
\* The body carried a cafeId that is a non-empty string.
HasCafeId(x) == x.body.json /\ x.body.typeof = "string" /\ x.body.cafeId # ""
PostStatuses == {200, 400, 404, 429, 500}

\* The rows of checkins are the rows of the requests answered with success,
\* one each; such a request had an allowance from the limiter, a cafeId and
\* a cafe of that id; a request answered 429, 400, 404 or 500 has no row; and
\* a step that changes checkins adds the one row of the request whose insert
\* it serves.
CheckInsOnlyFromAcceptedRequests ==
    /\ [](/\ \A x \in Posts :
               /\ x.pc = "done" => x.res.status \in PostStatuses
               /\ x.res.status = 200 =>
                     /\ ~x.rlThrew /\ x.rl.allowed /\ HasCafeId(x)
                     /\ \E c \in cafes : c.id = x.body.cafeId
                     /\ x.ops = <<"rate_limit_hit", "cafes.select", "checkins.insert">>
                     /\ x.res.checkIn # None
                     /\ x.res.checkIn[1] \in checkins
                     /\ x.res.checkIn[1].cafe_id = x.body.cafeId
               /\ x.res.status # 200 =>
                     /\ x.res.checkIn = None
                     /\ x.pc = "done" => ~Called(x, "checkins.insert") \/ x.res.status = 500
          /\ \A row \in checkins :
                \E x \in Posts : x.res.status = 200 /\ x.res.checkIn = Some(row)
          /\ Cardinality(checkins) =
                Cardinality({r \in 1..Len(req) : req[r].res.status = 200}))
    /\ [][checkins' # checkins =>
             \E r \in 1..Len(req) :
                 /\ req[r].pc = "insert" /\ req'[r].res.status = 200
                 /\ req[r].rl.allowed /\ HasCafeId(req[r])
                 /\ \E c \in cafes : c.id = req[r].body.cafeId
                 /\ checkins' = checkins \cup {req'[r].res.checkIn[1]}
                 /\ Cardinality(checkins') = Cardinality(checkins) + 1]_vars

\* The store serves the rpc of request r in this step.
RpcServed(r) == req[r].pc = "rl" /\ req'[r].pc = "rl_ret"
\* The step counts a hit on the counter of the client of request r: the
\* counter goes up by one, or starts at 1 when there was none or its window
\* has passed.
HitCounted(r) ==
    LET ipHash == sha256Base64Url(getClientIp(req[r].headers))
        old    == RateLimitCounter(rl, Route, ipHash)
        new    == RateLimitCounter(rl', Route, ipHash)
    IN  /\ Cardinality(new) = 1
        /\ LET n == CHOOSE c \in new : TRUE
           IN  IF old = {} \/ now >= (CHOOSE c \in old : TRUE).reset_at
               THEN n.count = 1
               ELSE n.count = (CHOOSE c \in old : TRUE).count + 1
\* The rpc is the first store operation of every request.
RpcComesFirst ==
    \A x \in Posts : x.pc # "rl" => x.ops # << >> /\ x.ops[1] = "rate_limit_hit"

\* C25 as stated: check-ins come from accepted requests only, and the
\* counter counts a hit for every request.
C25_CounterCountsEveryRequest ==
    /\ CheckInsOnlyFromAcceptedRequests
    /\ []RpcComesFirst
    /\ [][\A r \in 1..Len(req) : RpcServed(r) => HitCounted(r)]_vars

\* C25 as amended: check-ins come from accepted requests only; the rpc is
\* the first store operation of every request, whatever its answer; the
\* counter counts a hit for every request whose rpc the store served without
\* error, and is left as it was when the store failed on the rpc.
C25_CounterCountsServedRequests ==
    /\ CheckInsOnlyFromAcceptedRequests
    /\ []RpcComesFirst
    /\ [][\A r \in 1..Len(req) :
             RpcServed(r) =>
                 IF req'[r].rlFail THEN rl' = rl ELSE HitCounted(r)]_vars

\* C25, witness: of two requests of one client for a cafe that exists, one
\* was allowed and inserted its check-in and the other was denied; the
\* counter counted both (it stands above the limit) and checkins holds the
\* one row.
C25_Witness ==
    \E x, y \in Posts :
        /\ x.res.status = 200 /\ y.res.status = 429
        /\ x.body.cafeId = "cafe-1" /\ y.body.cafeId = "cafe-1"
        /\ getClientIp(x.headers) = getClientIp(y.headers)
        /\ Cardinality(checkins) = 1
        /\ \E c \in rl : c.count = PostLimit + 1 /\ y.res.used = Some(c.count)

=============================================================================
